---- MODULE Spec2Model ----
(***************************************************************************)
(* wait-for: block until a path satisfies the requested permission modes   *)
(* for a user, watching the parent directory with inotify and falling      *)
(* back to a 10 ms polling loop.  Model of src/wait-for.c.                 *)
(*                                                                         *)
(* The program is one sequential thread (main); every system call of main  *)
(* is one step, so that other processes changing the filesystem interleave *)
(* with it.  The environment is the filesystem entry awaited, its parent   *)
(* directory, the account database, the descriptor table of the process    *)
(* and the kernel's inotify instance.                                      *)
(***************************************************************************)
EXTENDS Integers, Sequences, FiniteSets, TLC

VARIABLES
    \* ---- main's locals
    pc,          \* position in main
    status,      \* int status
    inotify_fd,  \* int inotify_fd
    watch_fd,    \* int watch_fd
    username,    \* char username[LOGIN_NAME_MAX]
    uid,         \* uid_t uid
    gid,         \* gid_t gid
    args,        \* cli_args args
    err,         \* const char *err
    extrac,      \* int extrac
    numread,     \* int numread, with the errno of a failed read
    \* ---- the process and the kernel
    ruid,        \* getuid()
    fds,         \* descriptor table: fd -> "closed" | "std" | "inotify"
    watchInode,  \* inode the inotify watch is attached to, 0 = no watch
    queue,       \* events queued on the inotify instance (saturating)
    \* ---- the filesystem
    parent,      \* inode of the directory at dirname(path), 0 = none
    file,        \* the entry at path: NoFile or its stat record
    fault,       \* error stat(2) meets on the way to the entry, "none" if none
    \* ---- what the run did (observed, never read by the program)
    stderr,      \* diagnostics written to the error stream
    verdict,     \* verdict of the last is_satisfactory call, "none" before it
    suspended,   \* a read of the channel or a sleep has been entered
    checked,     \* the predicate was evaluated since the last wake-up
    closeLog,    \* what each close(2) of the run hit
    changes      \* filesystem changes made by other processes so far

vars == <<pc, status, inotify_fd, watch_fd, username, uid, gid, args, err,
          extrac, numread, ruid, fds, watchInode, queue, parent, file, fault,
          stderr, verdict, suspended, checked, closeLog, changes>>

progVars == <<pc, status, inotify_fd, watch_fd, username, uid, gid, args, err,
              extrac, numread>>
kernVars == <<fds, watchInode, queue>>
fsVars   == <<parent, file, fault>>
histVars == <<stderr, verdict, suspended, checked, closeLog>>

----------------------------------------------------------------------------
\* Bounds of the model

\* filesystem changes other processes make during one run
MaxChanges == 3

\* events the inotify queue holds before it saturates
MaxQueue == 2
\* positional arguments on the command line
MaxArgs == 2

----------------------------------------------------------------------------
\* Program constants

\* gid_t groups[32]
NGROUPS == 32
\* st_mode bits tested by is_satisfactory (sys/stat.h)
S_IRUSR == 256
S_IWUSR == 128
S_IXUSR == 64
S_IRGRP == 32
S_IWGRP == 16
S_IXGRP == 8
S_IROTH == 4
S_IWOTH == 2
S_IXOTH == 1
\* the first watch descriptor inotify_add_watch hands out on a new instance
FirstWd == 1

NULL == "NULL"
NoFile == [exists |-> FALSE]

\* descriptors 0..3: the three standard streams and the first free one
FdRange == 0 .. 3

----------------------------------------------------------------------------
\* The account database (getpwuid, getgrouplist)

\* /etc/passwd: uid 1002 has no entry
Passwd == { [name |-> "root",  uid |-> 0,    gid |-> 0],
            [name |-> "alice", uid |-> 1000, gid |-> 1000],
            [name |-> "many",  uid |-> 1001, gid |-> 1001] }

CallerUids == {0, 1000, 1001, 1002}

\* /etc/group: the supplementary groups of each user name; "many" is in
\* NGROUPS groups besides the primary one, an unknown name in none
SupplementaryOf(name) ==
    CASE name = "alice" -> <<50>>
      [] name = "many"  -> [i \in 1 .. NGROUPS |-> 100 + i]
      [] OTHER          -> <<>>

\* the NULL that getpwuid returns
NoPasswd == [name |-> NULL, uid |-> -1, gid |-> -1]

\* getpwuid(u): the passwd record, NULL if there is none
getpwuid(u) ==
    IF \E p \in Passwd : p.uid = u
    THEN CHOOSE p \in Passwd : p.uid = u
    ELSE NoPasswd

\* getgrouplist(user, group, groups, &ngroups): the primary group followed by
\* the supplementary ones; -1 when they do not fit in size entries
getgrouplist(name, group, size) ==
    LET all == <<group>> \o SupplementaryOf(name)
    IN  IF Len(all) > size
        THEN [ret |-> -1, groups |-> SubSeq(all, 1, size), ngroups |-> Len(all)]
        ELSE [ret |-> Len(all), groups |-> all, ngroups |-> Len(all)]

\* what an uninitialized username[] buffer may hold
StackGarbage == {"?", "many"}

----------------------------------------------------------------------------
\* is_satisfactory

\* (mode & mask) != 0
Bit(mode, mask) == (mode \div mask) % 2 = 1

\* KeepWaiting without EACCES
KeepWaiting_NoAccess(errno) == errno \in {"ENOENT", "ENOTDIR", "ETXTBSY"}

\* the errno values of stat(2) that mean "keep waiting"
KeepWaiting(errno) == errno \in {"ENOENT", "EACCES", "ENOTDIR", "ETXTBSY"}

\* the for loop over groups[0 .. ngroups-1]
InGroups(groups, ngroups, g) == \E i \in 1 .. ngroups : groups[i] = g

\* ModeOk as access(2) decides: the first class the user falls in is the
\* only one looked at
ModeOk_FirstClassOnly(is_owner, is_in_group, mode, usr, grp, oth) ==
    IF is_owner THEN Bit(mode, usr)
    ELSE IF is_in_group THEN Bit(mode, grp)
    ELSE Bit(mode, oth)

\* one requested mode against the owner, group and other bits
ModeOk(is_owner, is_in_group, mode, usr, grp, oth) ==
    \/ is_owner /\ Bit(mode, usr)
    \/ is_in_group /\ Bit(mode, grp)
    \/ Bit(mode, oth)

\* is_satisfactory(args, username, uid, gid, file) on the result of stat(2):
\* ret is the value returned, msg what perror wrote ("" if nothing)
is_satisfactory(a, uname, u, g, st) ==
    IF ~st.ok
    THEN IF KeepWaiting(st.errno)
         THEN [ret |-> 0, msg |-> ""]
         ELSE [ret |-> -1, msg |-> "could not stat awaited file"]
    ELSE
      LET is_owner == st.st.uid = u
          gl == getgrouplist(uname, g, NGROUPS)
      IN  IF gl.ret = -1
          THEN [ret |-> -1, msg |-> "could not retrieve list of user groups"]
          ELSE
            LET is_in_group == InGroups(gl.groups, gl.ngroups, st.st.gid)
                s1 == IF a.read
                      THEN ModeOk(is_owner, is_in_group, st.st.mode, S_IRUSR, S_IRGRP, S_IROTH)
                      ELSE TRUE
                s2 == IF s1 /\ a.write
                      THEN ModeOk(is_owner, is_in_group, st.st.mode, S_IWUSR, S_IWGRP, S_IWOTH)
                      ELSE s1
                s3 == IF s2 /\ a.execute
                      THEN ModeOk(is_owner, is_in_group, st.st.mode, S_IXUSR, S_IXGRP, S_IXOTH)
                      ELSE s2
            IN  [ret |-> IF s3 THEN 1 ELSE 0, msg |-> ""]

----------------------------------------------------------------------------
\* The filesystem as stat(2) sees it

\* the stat records an entry at the path takes in this model:
\* rw-r--r-- of alice, rwx------ of another user, rw-rw---- of root in group 50
FileMetas == { [exists |-> TRUE, uid |-> 1000, gid |-> 1000, mode |-> 420],
               [exists |-> TRUE, uid |-> 2000, gid |-> 2000, mode |-> 448],
               [exists |-> TRUE, uid |-> 0,    gid |-> 50,   mode |-> 432] }

\* errors stat(2) can meet before it reaches the entry: the parent directory
\* is not searchable, a symbolic link on the way is a loop
StatFaults == {"EACCES", "ELOOP"}

\* stat(file, &stats)
Stat ==
    IF fault # "none" THEN [ok |-> FALSE, errno |-> fault, st |-> NoFile]
    ELSE IF parent = 0 \/ ~file.exists
         THEN [ok |-> FALSE, errno |-> "ENOENT", st |-> NoFile]
         ELSE [ok |-> TRUE, errno |-> "", st |-> file]

----------------------------------------------------------------------------
\* The descriptor table and the inotify instance

\* the lowest free descriptor, as open-like calls hand out
LowestFree(f) == CHOOSE n \in FdRange : f[n] = "closed" /\ \A m \in FdRange : m < n => f[m] # "closed"

\* what close(n) hits
CloseHits(f, n) == IF n \in FdRange THEN f[n] ELSE "closed"

\* the descriptor table after close(n)
CloseFd(f, n) == IF n \in FdRange THEN [f EXCEPT ![n] = "closed"] ELSE f

\* the inotify instance lives as long as a descriptor refers to it
InstanceAlive(f) == \E n \in FdRange : f[n] = "inotify"

\* the queue after one more event
Enqueue(q) == IF q < MaxQueue THEN q + 1 ELSE MaxQueue

----------------------------------------------------------------------------
\* Initial state: main's locals as declared (lines 135-148), the process as
\* it is started, the filesystem as it is found

Init ==
    /\ pc = "parse"
    /\ status = 0
    /\ inotify_fd = -1
    /\ watch_fd = -1
    /\ username \in StackGarbage
    /\ uid = 0
    /\ gid = 0
    /\ args = [help |-> FALSE, execute |-> FALSE, read |-> FALSE, write |-> FALSE,
               username |-> NULL]
    /\ err = NULL
    /\ extrac = 0
    /\ numread = [n |-> 0, errno |-> ""]
    /\ ruid \in CallerUids
    /\ fds \in { [n \in FdRange |-> IF n \in open THEN "std" ELSE "closed"] :
                   open \in {{0, 1, 2}, {0, 2}} }
    /\ watchInode = 0
    /\ queue = 0
    /\ parent \in {0, 1}
    /\ file \in IF parent = 0 THEN {NoFile} ELSE {NoFile} \cup FileMetas
    /\ fault = "none"
    /\ stderr = <<>>
    /\ verdict = "none"
    /\ suspended = FALSE
    /\ checked = FALSE
    /\ closeLog = {}
    /\ changes = 0

----------------------------------------------------------------------------
\* main

\* fprintf(stderr, ...), perror(...), fputs(..., stderr)
Emit(msg) == stderr' = Append(stderr, msg)

\* the exit status main sets when the option parser reports an error
ParseErrorStatus(e) == IF e # NULL THEN 1 ELSE 0

\* the exit status of the xopt_help label
HelpStatus(a) == IF a.help THEN 2 ELSE 0

\* the positional-argument check with >= for ==
ArgCountOk_AtLeastOne(n) == n >= 1

\* extrac is acceptable (line 167)
ArgCountOk(n) == n = 1

\* XOPT_SIMPLE_PARSE and the checks of err and extrac (lines 149-171), with the
\* xopt_help label (lines 295-297).  The parser either reports an error,
\* prints the help and jumps to xopt_help, or fills args and the extras.
ParseArgs ==
    /\ pc = "parse"
    /\ \/ /\ err' = "bad option"
          /\ Emit("error: bad option")
          /\ status' = ParseErrorStatus(err')
          /\ pc' = "exit"
          /\ UNCHANGED <<args, extrac>>
       \/ /\ args' = [args EXCEPT !.help = TRUE]
          /\ Emit("usage")
          /\ status' = HelpStatus(args')
          /\ pc' = "exit"
          /\ UNCHANGED <<err, extrac>>
       \/ \E r \in BOOLEAN, w \in BOOLEAN, x \in BOOLEAN,
             u \in {NULL, "", "alice"}, n \in 0 .. MaxArgs :
            /\ args' = [help |-> FALSE, execute |-> x, read |-> r, write |-> w,
                        username |-> u]
            /\ extrac' = n
            /\ IF ~ArgCountOk(n)
               THEN /\ Emit("error: expected exactly one positional argument")
                    /\ status' = 2
                    /\ pc' = "exit"
               ELSE /\ pc' = "identity"
                    /\ UNCHANGED <<status, stderr>>
            /\ UNCHANGED err
    /\ UNCHANGED <<inotify_fd, watch_fd, username, uid, gid, numread, ruid>>
    /\ UNCHANGED <<kernVars, fsVars, verdict, suspended, checked, closeLog, changes>>

\* lines 173-189: the identity of the checks
ResolveIdentity ==
    /\ pc = "identity"
    /\ IF args.username = NULL
       THEN LET pwd == getpwuid(ruid)
            IN  IF pwd = NoPasswd
                THEN /\ Emit("could not get passwd entry for the user")
                     /\ status' = 1
                     /\ pc' = "exit"
                     /\ UNCHANGED <<username, uid, gid>>
                ELSE /\ username' = pwd.name
                     /\ uid' = pwd.uid
                     /\ gid' = pwd.gid
                     /\ pc' = "inotify_init"
                     /\ UNCHANGED <<status, stderr>>
       ELSE IF args.username = ""
            THEN /\ Emit("error: username cannot be zero-length")
                 /\ status' = 2
                 /\ pc' = "exit"
                 /\ UNCHANGED <<username, uid, gid>>
            ELSE /\ pc' = "inotify_init"
                 /\ UNCHANGED <<status, stderr, username, uid, gid>>
    /\ UNCHANGED <<inotify_fd, watch_fd, args, err, extrac, numread, ruid>>
    /\ UNCHANGED <<kernVars, fsVars, verdict, suspended, checked, closeLog, changes>>

\* where main goes when inotify_init returned fd (lines 192-196)
AfterInotifyInit(fd) == IF fd = -1 THEN "exit" ELSE "add_watch"

\* lines 191-196: inotify_init() succeeds with the lowest free descriptor or
\* fails (EMFILE, ENFILE, ENOMEM)
InotifyInit ==
    /\ pc = "inotify_init"
    /\ \E ok \in BOOLEAN :
         LET fd == IF ok THEN LowestFree(fds) ELSE -1
         IN  /\ inotify_fd' = fd
             /\ fds' = IF ok THEN [fds EXCEPT ![fd] = "inotify"] ELSE fds
             /\ pc' = AfterInotifyInit(fd)
             /\ IF pc' = "exit"
                THEN /\ Emit("could not initialize inotify subsystem")
                     /\ status' = 1
                ELSE UNCHANGED <<status, stderr>>
    /\ UNCHANGED <<watch_fd, username, uid, gid, args, err, extrac, numread, ruid>>
    /\ UNCHANGED <<watchInode, queue, fsVars, verdict, suspended, checked, closeLog, changes>>

\* errors of inotify_add_watch on an existing directory: no read access to
\* it, or the user's watch limit is reached
WatchErrnos == {"EACCES", "ENOSPC"}

\* whether a failed inotify_add_watch is reported (lines 209-212)
WarnOnWatchFailure(errno) == errno # "ENOENT"

\* lines 198-214: dirname (which has no failure return in libc) and
\* inotify_add_watch on the parent directory
AddWatch ==
    /\ pc = "add_watch"
    /\ \E r \in IF parent = 0 THEN {"ENOENT"} ELSE {"ok"} \cup WatchErrnos :
         IF r = "ok"
         THEN /\ watch_fd' = FirstWd
              /\ watchInode' = parent
              /\ pc' = "watch_eval"
              /\ UNCHANGED stderr
         ELSE /\ IF WarnOnWatchFailure(r)
                 THEN Emit("warning: could not initialize watch handle: " \o r)
                 ELSE UNCHANGED stderr
              /\ pc' = "fallback"
              /\ UNCHANGED <<watch_fd, watchInode>>
    /\ UNCHANGED <<status, inotify_fd, username, uid, gid, args, err, extrac, numread, ruid>>
    /\ UNCHANGED <<fds, queue, fsVars, verdict, suspended, checked, closeLog, changes>>

\* Switch with a failed evaluation tried again after the next suspension
Switch_FatalRetried(ret, wait, st) ==
    CASE ret = 1  -> [pc |-> "exit", status |-> 0]
      [] ret = 0  -> [pc |-> wait, status |-> st]
      [] ret = -1 -> [pc |-> wait, status |-> 1]

\* Switch with the break of case 0 missing: control falls into case -1's
\* goto exit with the status as it is
Switch_NoBreak(ret, wait, st) ==
    CASE ret = 1  -> [pc |-> "exit", status |-> 0]
      [] ret = 0  -> [pc |-> "exit", status |-> st]
      [] ret = -1 -> [pc |-> "exit", status |-> 1]

\* the switch on is_satisfactory's value in both loops (lines 223-233 and
\* 265-275): where main goes and the status it sets; wait is the
\* suspension the loop continues with
Switch(ret, wait, st) ==
    CASE ret = 1  -> [pc |-> "exit", status |-> 0]
      [] ret = 0  -> [pc |-> wait, status |-> st]
      [] ret = -1 -> [pc |-> "exit", status |-> 1]

\* the verdict an is_satisfactory value stands for
VerdictOf(ret) ==
    CASE ret = 1  -> "Satisfied"
      [] ret = 0  -> "NotYet"
      [] ret = -1 -> "Fatal"

\* one evaluation of the predicate in a loop
Evaluate(wait) ==
    LET r == is_satisfactory(args, username, uid, gid, Stat)
        s == Switch(r.ret, wait, status)
    IN  /\ verdict' = VerdictOf(r.ret)
        /\ checked' = TRUE
        /\ IF r.msg # "" THEN Emit(r.msg) ELSE UNCHANGED stderr
        /\ status' = s.status
        /\ pc' = s.pc
        /\ suspended' = (suspended \/ s.pc = wait)

\* lines 223-233
WatchEvaluate ==
    /\ pc = "watch_eval"
    /\ Evaluate("watch_read")
    /\ UNCHANGED <<inotify_fd, watch_fd, username, uid, gid, args, err, extrac, numread, ruid>>
    /\ UNCHANGED <<kernVars, fsVars, closeLog, changes>>

\* AfterRead with a break out of the loop when the channel is at its end
AfterRead_Break(n) ==
    IF n = -1 THEN "exit" ELSE IF n = 0 THEN "fallback" ELSE "watch_eval"

\* AfterRead going back to the read when events were read
AfterRead_NoRecheck(n) == IF n = 0 \/ n = -1 THEN "exit" ELSE "watch_read"

\* where main goes after read returned n (lines 236-246)
AfterRead(n) == IF n = 0 \/ n = -1 THEN "exit" ELSE "watch_eval"

\* lines 235-246, read(inotify_fd, ...) returning queued events
WatchReadEvents ==
    /\ pc = "watch_read"
    /\ queue > 0
    /\ numread' = [n |-> queue, errno |-> ""]
    /\ queue' = 0
    /\ pc' = AfterRead(queue)
    /\ checked' = FALSE
    /\ UNCHANGED <<status, inotify_fd, watch_fd, username, uid, gid, args, err, extrac, ruid>>
    /\ UNCHANGED <<fds, watchInode, fsVars, stderr, verdict, suspended, closeLog, changes>>

\* lines 235-246, the blocked read returning without an event: interrupted
\* by a signal, failing otherwise, or returning 0
WatchReadFails ==
    /\ pc = "watch_read"
    /\ queue = 0
    /\ \E r \in { [n |-> -1, errno |-> "EINTR"], [n |-> -1, errno |-> "EIO"],
                  [n |-> 0, errno |-> ""] } :
         /\ numread' = r
         /\ pc' = AfterRead(r.n)
         /\ IF pc' = "exit"
            THEN /\ Emit(IF r.n = 0 THEN "error: inotify hung up (EOF)"
                                    ELSE "inotify read failed")
                 /\ status' = 1
            ELSE UNCHANGED <<status, stderr>>
    /\ UNCHANGED <<inotify_fd, watch_fd, username, uid, gid, args, err, extrac, ruid>>
    /\ UNCHANGED <<kernVars, fsVars, verdict, suspended, checked, closeLog, changes>>

\* Release without the close of inotify_fd
Release_LeakChannel(f, wfd, ifd) == IF wfd # -1 THEN CloseFd(f, wfd) ELSE f

\* the two guarded close calls of the fallback block and of the exit path:
\* the descriptor table afterwards
Release(f, wfd, ifd) ==
    LET f1 == IF wfd # -1 THEN CloseFd(f, wfd) ELSE f
    IN  IF ifd # -1 THEN CloseFd(f1, ifd) ELSE f1

\* what the two close calls hit
ReleaseLog(f, wfd, ifd) ==
    LET f1 == IF wfd # -1 THEN CloseFd(f, wfd) ELSE f
    IN  (IF wfd # -1 THEN {<<"watch_fd", CloseHits(f, wfd)>>} ELSE {})
        \cup (IF ifd # -1 THEN {<<"inotify_fd", CloseHits(f1, ifd)>>} ELSE {})

\* the kernel drops the watches and the queue of an instance no descriptor
\* refers to any more
Closes(wfd, ifd) ==
    /\ fds' = Release(fds, wfd, ifd)
    /\ closeLog' = closeLog \cup ReleaseLog(fds, wfd, ifd)
    /\ IF InstanceAlive(fds')
       THEN UNCHANGED <<watchInode, queue>>
       ELSE watchInode' = 0 /\ queue' = 0

\* lines 251-262
Fallback ==
    /\ pc = "fallback"
    /\ Closes(watch_fd, inotify_fd)
    /\ watch_fd' = -1
    /\ inotify_fd' = -1
    /\ pc' = "poll_eval"
    /\ UNCHANGED <<status, username, uid, gid, args, err, extrac, numread, ruid>>
    /\ UNCHANGED <<fsVars, stderr, verdict, suspended, checked, changes>>

\* lines 265-275
PollEvaluate ==
    /\ pc = "poll_eval"
    /\ Evaluate("poll_sleep")
    /\ UNCHANGED <<inotify_fd, watch_fd, username, uid, gid, args, err, extrac, numread, ruid>>
    /\ UNCHANGED <<kernVars, fsVars, closeLog, changes>>

\* AfterSleep setting the notification channel up again
AfterSleep_Rewatch == "inotify_init"

\* where the polling loop goes after its sleep: the closing brace of
\* while (true) at line 279
AfterSleep == "poll_eval"

\* line 278: usleep(10000) returns, interrupted or not
PollSleep ==
    /\ pc = "poll_sleep"
    /\ pc' = AfterSleep
    /\ checked' = FALSE
    /\ UNCHANGED <<status, inotify_fd, watch_fd, username, uid, gid, args, err, extrac, numread, ruid>>
    /\ UNCHANGED <<kernVars, fsVars, stderr, verdict, suspended, closeLog, changes>>

\* lines 281-294
Exit ==
    /\ pc = "exit"
    /\ Closes(watch_fd, inotify_fd)
    /\ pc' = "done"
    /\ UNCHANGED <<status, inotify_fd, watch_fd, username, uid, gid, args, err, extrac, numread, ruid>>
    /\ UNCHANGED <<fsVars, stderr, verdict, suspended, checked, changes>>

----------------------------------------------------------------------------
\* Other processes changing the filesystem while main runs

\* a change is counted, and none happens after main returned
Changing ==
    /\ pc # "done"
    /\ changes < MaxChanges
    /\ changes' = changes + 1

\* an event of the watch mask (IN_CREATE | IN_ATTRIB | IN_MODIFY |
\* IN_MOVED_FROM | IN_MOVED_TO, line 207) on an entry of directory dir is
\* queued iff the watch is attached to that directory
Notify(dir) ==
    IF watchInode # 0 /\ watchInode = dir
    THEN queue' = Enqueue(queue)
    ELSE UNCHANGED queue

\* the inode a directory newly made at the parent path gets: not the one a
\* watch still holds
FreshInode == IF watchInode = 1 THEN 2 ELSE 1

\* creat, or rename of an entry to the path: IN_CREATE, IN_MOVED_TO
CreateEntry ==
    /\ Changing
    /\ parent # 0 /\ ~file.exists
    /\ \E m \in FileMetas : file' = m
    /\ Notify(parent)
    /\ UNCHANGED <<progVars, ruid, fds, watchInode, parent, fault, histVars>>

\* chmod, chown of the entry: IN_ATTRIB
ChangeAttrib ==
    /\ Changing
    /\ parent # 0 /\ file.exists
    /\ \E m \in FileMetas \ {file} : file' = m
    /\ Notify(parent)
    /\ UNCHANGED <<progVars, ruid, fds, watchInode, parent, fault, histVars>>

\* rename of the entry to another place (IN_MOVED_FROM), or unlink
\* (IN_DELETE, which is not in the mask)
RemoveEntry ==
    /\ Changing
    /\ parent # 0 /\ file.exists
    /\ file' = NoFile
    /\ \E renamed \in BOOLEAN :
         IF renamed THEN Notify(parent) ELSE UNCHANGED queue
    /\ UNCHANGED <<progVars, ruid, fds, watchInode, parent, fault, histVars>>

\* mkdir at the parent path: a new inode, which no watch is attached to
MakeParent ==
    /\ Changing
    /\ parent = 0
    /\ parent' = FreshInode
    /\ UNCHANGED <<progVars, ruid, kernVars, file, fault, histVars>>

\* rmdir of the empty parent directory (the kernel removes the watch and
\* queues IN_IGNORED), or rename of the parent directory to another place
\* (IN_MOVE_SELF is not in the mask; the watch stays on the moved inode)
RemoveParent ==
    /\ Changing
    /\ parent # 0
    /\ parent' = 0
    /\ file' = NoFile
    /\ fault' = IF fault = "EACCES" THEN "none" ELSE fault
    /\ \/ /\ ~file.exists
          /\ IF watchInode = parent
             THEN watchInode' = 0 /\ queue' = Enqueue(queue)
             ELSE UNCHANGED <<watchInode, queue>>
       \/ UNCHANGED <<watchInode, queue>>
    /\ UNCHANGED <<progVars, ruid, fds, histVars>>

\* chmod of the parent directory takes or gives back its search permission
\* (IN_ATTRIB on the watched directory itself), or a symbolic link on the way
\* becomes or stops being a loop (no event in the parent directory)
SetFault ==
    /\ Changing
    /\ \E f \in (StatFaults \cup {"none"}) \ {fault} :
         /\ fault' = f
         /\ IF "EACCES" \in {f, fault}
            THEN parent # 0 /\ Notify(parent)
            ELSE UNCHANGED queue
    /\ UNCHANGED <<progVars, ruid, fds, watchInode, parent, file, histVars>>

----------------------------------------------------------------------------
\* Specifications

\* the steps main takes by itself
Program ==
    \/ ParseArgs
    \/ ResolveIdentity
    \/ InotifyInit
    \/ AddWatch
    \/ WatchEvaluate
    \/ WatchReadEvents
    \/ Fallback
    \/ PollEvaluate
    \/ PollSleep
    \/ Exit

\* the steps of other processes and of signals
Environment ==
    \/ WatchReadFails
    \/ CreateEntry
    \/ ChangeAttrib
    \/ RemoveEntry
    \/ MakeParent
    \/ RemoveParent
    \/ SetFault

Next == Program \/ Environment

Spec == Init /\ [][Next]_vars

----------------------------------------------------------------------------
\* One evaluation of the predicate, over all its inputs: main stands before
\* the switch of the watching or of the polling loop, with any file at the
\* path and any identity main can hold there

\* every stat record over the owners, groups and the nine mode bits
AllMetas ==
    { [exists |-> TRUE, uid |-> u, gid |-> g, mode |-> m] :
        u \in {0, 1000, 2000}, g \in {0, 50, 1000}, m \in 0 .. 511 }

\* the errors of stat(2) besides ENOENT, with the ETXTBSY the code tests for
AllStatErrnos ==
    {"EACCES", "ENOTDIR", "ETXTBSY", "ELOOP", "ENAMETOOLONG", "ENOMEM",
     "EOVERFLOW", "EIO"}

\* username, uid, gid, args.username and getuid() after lines 173-189: an
\* account of the passwd database, or what the declarations left when a user
\* name was given
EvalIdentities ==
    { <<p.name, p.uid, p.gid, NULL, p.uid>> : p \in Passwd }
        \cup { <<g, 0, 0, "alice", 1000>> : g \in StackGarbage }

EvalInit ==
    /\ pc \in {"watch_eval", "poll_eval"}
    /\ status = 0
    /\ inotify_fd = (IF pc = "watch_eval" THEN 3 ELSE -1)
    /\ watch_fd = (IF pc = "watch_eval" THEN FirstWd ELSE -1)
    /\ \E id \in EvalIdentities, r \in BOOLEAN, w \in BOOLEAN, x \in BOOLEAN :
         /\ username = id[1]
         /\ uid = id[2]
         /\ gid = id[3]
         /\ args = [help |-> FALSE, execute |-> x, read |-> r, write |-> w,
                    username |-> id[4]]
         /\ ruid = id[5]
    /\ err = NULL
    /\ extrac = 1
    /\ numread = [n |-> 0, errno |-> ""]
    /\ fds = [n \in FdRange |-> IF n < 3 THEN "std"
                                ELSE IF pc = "watch_eval" THEN "inotify" ELSE "closed"]
    /\ watchInode = (IF pc = "watch_eval" THEN 1 ELSE 0)
    /\ queue = 0
    /\ \/ parent = 1 /\ file \in AllMetas /\ fault = "none"
       \/ parent = 1 /\ file \in FileMetas /\ fault \in AllStatErrnos
       \/ parent \in {0, 1} /\ file = NoFile /\ fault = "none"
    /\ stderr = <<>>
    /\ verdict = "none"
    /\ suspended = FALSE
    /\ checked = FALSE
    /\ closeLog = {}
    /\ changes = 0

EvalNext == WatchEvaluate \/ PollEvaluate

EvalSpec == EvalInit /\ [][EvalNext]_vars

----------------------------------------------------------------------------
\* The predicate as the specification defines it (sections 4.1 and 4.2),
\* used to state the claims

\* the identity of the checks: the account of the invoking user, with the
\* groups of the user name given, if one is
SpecIdentity ==
    LET pw == getpwuid(ruid)
        name == IF args.username = NULL THEN pw.name ELSE args.username
        all == <<pw.gid>> \o SupplementaryOf(name)
    IN  [uid |-> ruid,
         gids |-> {all[i] : i \in 1 .. (IF Len(all) > NGROUPS THEN NGROUPS ELSE Len(all))}]

\* (is_owner AND owner-bit) OR (is_in_group AND group-bit) OR other-bit
SpecModeOk(id, st, usr, grp, oth) ==
    \/ st.uid = id.uid /\ Bit(st.mode, usr)
    \/ st.gid \in id.gids /\ Bit(st.mode, grp)
    \/ Bit(st.mode, oth)

\* the entry at the path exists and every requested mode passes
Satisfying ==
    /\ fault = "none" /\ parent # 0 /\ file.exists
    /\ args.read => SpecModeOk(SpecIdentity, file, S_IRUSR, S_IRGRP, S_IROTH)
    /\ args.write => SpecModeOk(SpecIdentity, file, S_IWUSR, S_IWGRP, S_IWOTH)
    /\ args.execute => SpecModeOk(SpecIdentity, file, S_IXUSR, S_IXGRP, S_IXOTH)

\* the command line was accepted: no parser error, no help request, one
\* positional argument, no empty user name
ValidArgs ==
    /\ pc # "parse"
    /\ err = NULL /\ ~args.help /\ extrac = 1 /\ args.username # ""

\* the identity can be resolved
IdentityResolvable == args.username # NULL \/ getpwuid(ruid) # NoPasswd

----------------------------------------------------------------------------
\* Claims

\* C1: the process exits with status 0 if and only if an evaluation of the
\* predicate returned Satisfied: once an evaluation returned 1 main is on
\* the exit path with status 0 (no further evaluation, read or sleep), and
\* main never returns 0 unless the last evaluation returned 1.
C1_ExitZeroIffSatisfied ==
    /\ verdict = "Satisfied" => pc \in {"exit", "done"} /\ status = 0
    /\ pc = "done" /\ status = 0 => verdict = "Satisfied"

\* a run that watched, was woken and then found the predicate satisfied
C1_Witness ==
    pc = "done" /\ status = 0 /\ verdict = "Satisfied" /\ numread.n > 0

\* C2: if the path satisfies the predicate when the program starts (valid
\* arguments, resolvable identity), main returns 0 without having entered a
\* read of the channel or a sleep, whatever notification setup did.
C2_SatisfiedAtStartNeverSuspends ==
    (pc = "done" /\ changes = 0 /\ ValidArgs /\ IdentityResolvable /\ Satisfying)
        => status = 0 /\ ~suspended


\* C3: the predicate is evaluated before any suspension and after every
\* wake-up (a read that returned events, a sleep that ended) before the next
\* suspension or exit; an event queued while main is between an evaluation
\* and the return of the read stays queued until the read returns it, and
\* the read that returns it leads to a re-evaluation.
C3_EvaluatedAroundEverySuspension ==
    /\ [](/\ pc \in {"watch_read", "poll_sleep"} => checked
          /\ suspended => verdict # "none"
          /\ pc \in {"exit", "done"} /\ verdict # "none" => checked)
    /\ [][(queue > 0 /\ pc \in {"watch_eval", "watch_read"})
             => \/ queue' > 0
                \/ pc = "watch_read" /\ pc' = "watch_eval" /\ ~checked']_vars

\* the target became satisfying after the evaluation that found it not yet
\* so, and the event of the change is queued for the read
C3_Witness ==
    /\ pc = "watch_read" /\ verdict = "NotYet" /\ queue > 0
    /\ is_satisfactory(args, username, uid, gid, Stat).ret = 1

\* C4: in Watching mode main is never blocked in the read, with no event
\* queued, while the target satisfies the predicate (the changes being over,
\* it would stay blocked forever).  Stated for the runs in which an
\* evaluation by the program agrees that the target is satisfying.
C4_NeverBlockedWhileSatisfying ==
    (/\ pc = "watch_read"
     /\ Satisfying
     /\ is_satisfactory(args, username, uid, gid, Stat).ret = 1)
        => queue > 0

\* C5: with the parent directory absent when the watch is registered main
\* goes to the fallback, not to a failure exit; and an evaluation of the
\* polling loop made while the directory and the file exist with satisfying
\* bits returns Satisfied and main exits with status 0.  Stated for the runs
\* made for the invoking user (no user name given) that fell back because
\* the directory was absent (the one fallback that writes no warning).
C5_FallbackDetectsSatisfying ==
    [][/\ (pc = "add_watch" /\ pc' # pc /\ parent = 0) => pc' = "fallback"
       /\ (pc = "poll_eval" /\ pc' # pc /\ args.username = NULL /\ stderr = <<>>
              /\ Satisfying)
             => verdict' = "Satisfied" /\ pc' = "exit" /\ status' = 0]_vars

\* C6: no failure of notification setup is fatal: with valid arguments and a
\* resolvable identity main is never on the exit path with a failure status
\* before the predicate was evaluated at all.
C6_SetupFailureNeverFatal ==
    (ValidArgs /\ IdentityResolvable /\ verdict = "none")
        => ~(pc \in {"exit", "done"} /\ status # 0)

\* C7: a read of the channel that fails with EINTR is not fatal: the loop
\* continues with a re-evaluation and the status is left alone.
C7_InterruptedReadContinues ==
    [][(pc = "watch_read" /\ pc' # pc /\ numread'.errno = "EINTR")
          => pc' = "watch_eval" /\ status' = status]_vars

\* C8: no channel is leaked: when main returns, and all the time it polls,
\* no descriptor of the process refers to the inotify instance and no watch
\* is registered; while polling main holds neither handle.
C8_NoChannelLeak ==
    /\ pc = "done" => ~InstanceAlive(fds) /\ watchInode = 0
    /\ pc \in {"poll_eval", "poll_sleep"}
          => ~InstanceAlive(fds) /\ watchInode = 0 /\ inotify_fd = -1 /\ watch_fd = -1

\* a run that held the channel and the watch and returned
C8_Witness ==
    pc = "done" /\ watch_fd # -1 /\ <<"inotify_fd", "inotify">> \in closeLog

\* a positional-argument count other than one, an empty user name given, or
\* a help request, on a command line the option parser accepted
UsageCase ==
    /\ pc # "parse"
    /\ \/ args.help
       \/ err = NULL /\ (extrac # 1 \/ args.username = "")

\* C9: a positional-argument count other than one, an empty user name and a
\* help request end with status 2, before any notification channel is
\* created and before any evaluation; Watching and Polling are never entered.
C9_UsageErrorsExitEarly ==
    UsageCase =>
        /\ pc \in {"identity", "exit", "done"}
        /\ pc \in {"exit", "done"} => status = 2
        /\ inotify_fd = -1 /\ watch_fd = -1 /\ ~InstanceAlive(fds)
        /\ verdict = "none" /\ ~suspended /\ closeLog = {}

\* the run given an empty user name has returned
C9_Witness ==
    pc = "done" /\ status = 2 /\ args.username = "" /\ extrac = 1

\* C10: every usage error, a flag rejected by the option parser included,
\* ends with status 2 and a diagnostic; status 1 comes from runtime failures
\* only.
C10_UsageErrorsExitTwo ==
    LET usage == err # NULL \/ extrac # 1 \/ args.username = ""
    IN  pc = "done" =>
          /\ usage => status = 2 /\ stderr # <<>>
          /\ status = 1 => ~usage

\* the evaluation has been made (under EvalSpec nothing else happens, so
\* Stat is still what the evaluation saw)
Evaluated == verdict # "none"

\* C11: with no mode requested the predicate is pure existence: whenever
\* stat succeeds the evaluation returns Satisfied, whatever the owner, group
\* and mode bits of the file and whatever the identity and the outcome of
\* the group-list query.  Stated for the evaluations made for the invoking
\* user (no user name given).
C11_NoModesIsExistence ==
    (/\ Evaluated /\ args.username = NULL
     /\ ~args.read /\ ~args.write /\ ~args.execute
     /\ Stat.ok)
        => verdict = "Satisfied"

\* the group list was obtained: the query of the evaluation did not fail
GroupListObtained == getgrouplist(username, gid, NGROUPS).ret # -1

\* (is_owner AND owner-bit(m)) OR (is_in_group AND group-bit(m)) OR
\* other-bit(m), with is_owner the file's uid being the uid of the checks and
\* is_in_group the file's gid being the primary gid or a supplementary one
ClaimedModeOk(usr, grp, oth) ==
    LET is_owner == file.uid = uid
        sup == SupplementaryOf(username)
        is_in_group == file.gid = gid \/ \E i \in 1 .. Len(sup) : sup[i] = file.gid
    IN  \/ is_owner /\ Bit(file.mode, usr)
        \/ is_in_group /\ Bit(file.mode, grp)
        \/ Bit(file.mode, oth)

\* C12: when the metadata and the group list are obtained the evaluation
\* returns Satisfied iff every requested mode passes the owner / group /
\* other rule, and NotYet otherwise, for every owner, group and mode bits of
\* the file, every identity and every set of requested modes.
C12_SatisfiedIffEveryModePasses ==
    (Evaluated /\ Stat.ok /\ GroupListObtained) =>
        LET all == /\ args.read => ClaimedModeOk(S_IRUSR, S_IRGRP, S_IROTH)
                   /\ args.write => ClaimedModeOk(S_IWUSR, S_IWGRP, S_IWOTH)
                   /\ args.execute => ClaimedModeOk(S_IXUSR, S_IXGRP, S_IXOTH)
        IN  verdict = (IF all THEN "Satisfied" ELSE "NotYet")

\* scenario B: rwx------ of another user and group, Write requested, found
\* not yet satisfying
C12_Witness ==
    /\ Evaluated /\ Stat.ok /\ GroupListObtained
    /\ file.mode = 448 /\ file.uid # uid /\ file.gid = 50 /\ username = "root"
    /\ args.write /\ ~args.read /\ ~args.execute
    /\ verdict = "NotYet"

\* C13: a stat failure with ENOENT, EACCES, ENOTDIR or ETXTBSY gives NotYet:
\* the loop goes on to its suspension, nothing is written and the status is
\* left alone; any other stat failure gives Fatal: a diagnostic and the exit
\* path with status 1.  A path that does not exist never gives Fatal.
C13_StatFailureClasses ==
    (Evaluated /\ ~Stat.ok) =>
        IF Stat.errno \in {"ENOENT", "EACCES", "ENOTDIR", "ETXTBSY"}
        THEN /\ verdict = "NotYet"
             /\ pc \in {"watch_read", "poll_sleep"}
             /\ stderr = <<>> /\ status = 0
        ELSE /\ verdict = "Fatal"
             /\ pc = "exit" /\ status = 1
             /\ stderr = <<"could not stat awaited file">>

\* the path does not exist and the evaluation said not yet
C13_Witness ==
    /\ Evaluated /\ ~file.exists /\ fault = "none" /\ parent = 0
    /\ verdict = "NotYet" /\ pc = "poll_sleep"

\* C14: a group list that does not fit the NGROUPS entries is no failure: the
\* evaluation does not return Fatal when the metadata was obtained and the
\* query was truncated.
C14_TruncatedGroupListNotFatal ==
    (/\ Evaluated /\ args.username = NULL /\ Stat.ok
     /\ Len(<<gid>> \o SupplementaryOf(username)) > NGROUPS)
        => verdict # "Fatal"

\* the identity is resolved: main is past lines 173-189 and in one of its loops
InLoops == pc \in {"watch_eval", "watch_read", "poll_eval", "poll_sleep"}

\* C15: with a user name given the evaluations use that name for the group
\* list and the uid of the invoking process for ownership; without one the
\* name, uid and primary gid are those of the account of the invoking uid.
C15_IdentityOfTheChecks ==
    InLoops =>
        IF args.username = NULL
        THEN [name |-> username, uid |-> uid, gid |-> gid] = getpwuid(ruid)
        ELSE username = args.username /\ uid = ruid

Watching == {"watch_eval", "watch_read"}
Polling == {"poll_eval", "poll_sleep"}
Terminal == {"exit", "done"}

\* C16: the session only moves forward: from the fallback block and the
\* polling loop main never gets back to creating, registering or reading a
\* notification channel and holds no descriptor or watch again, and once main
\* is on its exit path no evaluation, read or sleep follows.
C16_SessionOnlyMovesForward ==
    [][ /\ pc \in {"fallback"} \cup Polling =>
              /\ pc' \in {"fallback", "exit"} \cup Polling
              /\ inotify_fd' \in {inotify_fd, -1}
              /\ watch_fd' \in {watch_fd, -1}
              /\ numread' = numread
        /\ pc \in Polling => fds' = fds
        /\ pc \in Terminal =>
              /\ pc' \in Terminal
              /\ verdict' = verdict /\ numread' = numread
              /\ suspended' = suspended /\ status' = status ]_vars

\* the polling loop went round: a sleep ended and the file was evaluated again
C16_Witness ==
    pc = "poll_sleep" /\ suspended /\ checked /\ changes > 0 /\ inotify_fd = -1

\* C17: a fatal condition ends the run where it occurs: a missing passwd
\* entry, a Fatal evaluation, and a read that returns 0 or -1 each write a
\* diagnostic and take the exit path with a non-zero status; from there the
\* status stays and nothing is evaluated, read or slept on again.
C17_FatalIsTerminal ==
    /\ [](verdict = "Fatal" => pc \in Terminal /\ status = 1 /\ stderr # <<>>)
    /\ [][ /\ (pc = "identity" /\ pc' # pc /\ args.username = NULL
                  /\ getpwuid(ruid) = NoPasswd) =>
                 /\ pc' = "exit" /\ status' # 0
                 /\ Len(stderr') = Len(stderr) + 1
           /\ (pc = "watch_read" /\ pc' # pc /\ numread'.n <= 0) =>
                 /\ pc' = "exit" /\ status' # 0
                 /\ Len(stderr') = Len(stderr) + 1
           /\ (pc \in Terminal /\ status # 0) =>
                 /\ pc' \in Terminal /\ status' = status
                 /\ verdict' = verdict /\ stderr' = stderr ]_vars

\* an evaluation failed in the watching loop and main returned 1
C17_Witness ==
    verdict = "Fatal" /\ pc = "done" /\ status = 1 /\ watch_fd = FirstWd

\* C18: the watch registration failing because the parent directory is
\* absent or not accessible is silent: no warning about ENOENT or EACCES is
\* ever written.
C18_SilentDowngrade ==
    \A i \in 1 .. Len(stderr) :
        stderr[i] \notin { "warning: could not initialize watch handle: ENOENT",
                           "warning: could not initialize watch handle: EACCES" }

\* C19: the watching loop is left only to the exit path, and the fallback
\* block and the polling loop are reached only from the failed registration
\* of the watch, with no watch held.
C19_WatchingLeftOnlyByExit ==
    [][ /\ pc \in Watching => pc' \in Watching \cup {"exit"}
        /\ (pc' = "fallback" /\ pc # "fallback") =>
              pc = "add_watch" /\ watch_fd' = -1
        /\ (pc' \in Polling /\ pc \notin Polling) => pc = "fallback" ]_vars

\* the watching loop was left with the channel at its end
C19_Witness ==
    pc = "exit" /\ watch_fd = FirstWd /\ numread.n = 0 /\ suspended
        /\ stderr # <<>>

\* C20: every close of the program hits a descriptor the program opened and
\* that is still open, which is the inotify descriptor.
C20_ClosesOnlyOwnOpenDescriptors ==
    \A c \in closeLog : c[2] = "inotify"

====
